---- MODULE Spec2Model ----
(***************************************************************************)
(* Model of the scripts of train-ml-model:                                 *)
(*   merge_dataset_1.py  (fixed DATASETS table, per-dataset target id)     *)
(*   merge_dataset_2.py  (located datasets, forced target id)              *)
(*   export_to_coreml.py (conversion and copy to a free name)              *)
(*                                                                         *)
(* A file or directory name is a sequence of one-character strings, a path *)
(* is a sequence of names relative to --root, and the filesystem is the    *)
(* set of directories plus a function from file paths to their content.    *)
(* A text file's content is its sequence of lines, a line the sequence of  *)
(* whitespace-separated tokens that line.split() returns.  The order in    *)
(* which the filesystem lists the entries of --root is arbitrary and is    *)
(* the same for every listing of a behaviour; merge_dataset_1 never lists   *)
(* root.                                                                   *)
(***************************************************************************)
EXTENDS Integers, Sequences, FiniteSets, TLC

VARIABLES fs, listing, args, last, runs, line, emitted

vars == <<fs, listing, args, last, runs, line, emitted>>

(***************************************************************************)
(* Bounds of the model.                                                    *)
(***************************************************************************)
MaxEntries == 2
MaxRuns == 2
MaxTokens == 13

(***************************************************************************)
(* Names.                                                                  *)
(***************************************************************************)
DotYolo == <<".", "y", "o", "l", "o", "v", "1", "1">>

Train == <<"t", "r", "a", "i", "n">>
Valid == <<"v", "a", "l", "i", "d">>
Val == <<"v", "a", "l">>
Test == <<"t", "e", "s", "t">>
Images == <<"i", "m", "a", "g", "e", "s">>
Labels == <<"l", "a", "b", "e", "l", "s">>
DataYaml == <<"d", "a", "t", "a", ".", "y", "a", "m", "l">>

UNIFIED_NAMES == <<"credit_card", "id_card", "passport">>

FORCED_TARGET_ID == 1

SplitKeys == <<"train", "valid", "test">>

\* merge_dataset_2: the ranked aliases of each split key.
SPLIT_ALIASES ==
    [train |-> <<Train>>, valid |-> <<Valid, Val>>, test |-> <<Test>>]

\* The output folder of a split key: out / split.
SplitDir(split) ==
    CASE split = "train" -> Train
      [] split = "valid" -> Valid
      [] split = "test" -> Test

IMG_EXTS ==
    { <<".", "j", "p", "g">>, <<".", "j", "p", "e", "g">>,
      <<".", "p", "n", "g">>, <<".", "b", "m", "p">>,
      <<".", "w", "e", "b", "p">>, <<".", "t", "i", "f">>,
      <<".", "t", "i", "f", "f">> }

\* merge_dataset_1: folder name -> target unified id, in insertion order.
CreditCards ==
    <<"c", "r", "e", "d", "i", "t", "-", "c", "a", "r", "d", "s">> \o DotYolo
CardLiveVideo ==
    <<"c", "a", "r", "d", "-", "l", "i", "v", "e", "-",
      "v", "i", "d", "e", "o">> \o DotYolo
Vkyc == <<"V", "K", "Y", "C", ".", "v", "2", "i">> \o DotYolo
Passport == <<"p", "a", "s", "s", "p", "o", "r", "t">> \o DotYolo

DATASETS ==
    << [name |-> CreditCards, target |-> 0],
       [name |-> CardLiveVideo, target |-> 0],
       [name |-> Vkyc, target |-> 1],
       [name |-> Passport, target |-> 2] >>

(***************************************************************************)
(* Strings.                                                                *)
(***************************************************************************)
UpperChars ==
    <<"A", "B", "C", "D", "E", "F", "G", "H", "I", "J", "K", "L", "M",
      "N", "O", "P", "Q", "R", "S", "T", "U", "V", "W", "X", "Y", "Z">>
LowerChars ==
    <<"a", "b", "c", "d", "e", "f", "g", "h", "i", "j", "k", "l", "m",
      "n", "o", "p", "q", "r", "s", "t", "u", "v", "w", "x", "y", "z">>

LowerCh(c) ==
    IF \E i \in DOMAIN UpperChars : UpperChars[i] = c
    THEN LowerChars[CHOOSE i \in DOMAIN UpperChars : UpperChars[i] = c]
    ELSE c

\* str.lower()
Lower(s) == [i \in DOMAIN s |-> LowerCh(s[i])]

\* str.endswith(suffix)
EndsWith(s, suffix) ==
    /\ Len(s) >= Len(suffix)
    /\ SubSeq(s, Len(s) - Len(suffix) + 1, Len(s)) = suffix

\* str.replace(old, "_") for each one-character old in olds.
ReplaceChars(s, olds) == [i \in DOMAIN s |-> IF s[i] \in olds THEN "_" ELSE s[i]]

\* merge_dataset_2: name.replace(os.sep, "_").replace(" ", "_").replace(".", "_")
sanitize_prefix(name) == ReplaceChars(name, {"/", " ", "."})

\* merge_dataset_1: ds_name.replace(os.sep, "_").replace(".", "_")
prefix_1(name) == ReplaceChars(name, {"/", "."})

\* f"{prefix}_{name}"
new_name(prefix, name) == prefix \o <<"_">> \o name

\* PurePath.suffix: from the last dot, unless that dot leads or ends the name.
PathSuffix(name) ==
    LET dots == {i \in DOMAIN name : name[i] = "."}
        i == IF dots = {} THEN 0 ELSE CHOOSE k \in dots : \A j \in dots : j <= k
    IN IF 1 < i /\ i < Len(name) THEN SubSeq(name, i, Len(name)) ELSE <<>>

\* fnmatch of one path component against a pattern with * and ?.
RECURSIVE GlobMatch(_, _)
GlobMatch(pat, s) ==
    IF pat = <<>> THEN s = <<>>
    ELSE IF Head(pat) = "*"
         THEN GlobMatch(Tail(pat), s) \/ (s # <<>> /\ GlobMatch(pat, Tail(s)))
         ELSE /\ s # <<>>
              /\ (Head(pat) = "?" \/ Head(pat) = Head(s))
              /\ GlobMatch(Tail(pat), Tail(s))

\* str(int) of a class id.
StrOfInt(n) ==
    CASE n = 0 -> "0"
      [] n = 1 -> "1"
      [] n = 2 -> "2"
      [] n = 3 -> "3"
      [] n = 7 -> "7"

\* int(token): [ok, val]; ValueError is ok = FALSE.
IntParse(tok) ==
    CASE tok = "0" -> [ok |-> TRUE, val |-> 0]
      [] tok = "1" -> [ok |-> TRUE, val |-> 1]
      [] tok = "2" -> [ok |-> TRUE, val |-> 2]
      [] tok = "7" -> [ok |-> TRUE, val |-> 7]
      [] tok = "01" -> [ok |-> TRUE, val |-> 1]
      [] OTHER -> [ok |-> FALSE, val |-> 0]

(***************************************************************************)
(* Sequences and sets.                                                     *)
(***************************************************************************)
RECURSIVE SetToSeq(_)
SetToSeq(S) ==
    IF S = {} THEN <<>>
    ELSE LET x == CHOOSE x \in S : TRUE IN <<x>> \o SetToSeq(S \ {x})

\* Every ordering of a finite set: the orders a directory listing may have.
RECURSIVE Perms(_)
Perms(S) ==
    IF S = {} THEN {<<>>}
    ELSE UNION { { <<x>> \o p : p \in Perms(S \ {x}) } : x \in S }

Range(s) == {s[i] : i \in DOMAIN s}

(***************************************************************************)
(* The filesystem under --root.                                            *)
(***************************************************************************)
IsPrefix(d, p) == Len(d) <= Len(p) /\ SubSeq(p, 1, Len(d)) = d

Parent(p) == SubSeq(p, 1, Len(p) - 1)

Name(p) == p[Len(p)]

\* Path.exists(), Path.is_dir(), Path.is_file()
Exists(f, p) == p \in f.dirs \/ p \in DOMAIN f.files
IsDir(f, p) == p \in f.dirs
IsFile(f, p) == p \in DOMAIN f.files

Ancestors(p) == {SubSeq(p, 1, k) : k \in 1..Len(p)}

\* Path.mkdir(parents=True, exist_ok=True)
make_dirs(f, p) == [f EXCEPT !.dirs = @ \cup Ancestors(p)]

\* shutil.copy2(src, dest) and Path.write_text(dest, content)
WriteFile(f, dest, content) ==
    [f EXCEPT !.files = (dest :> content) @@ @]

\* The files Path.rglob("*") / Path.glob("**/*") yields: those below d.
FilesBelow(f, d) ==
    {p \in DOMAIN f.files : Len(p) > Len(d) /\ IsPrefix(d, p)}

\* root.iterdir(): the entries of root.  order is the order in which the
\* filesystem lists the directories; the plain files, which every caller
\* drops at once, are put after them.
RootEntries(f, order) ==
    SelectSeq(order, LAMBDA n : Exists(f, <<n>>))
    \o SetToSeq({p[1] : p \in {q \in DOMAIN f.files : Len(q) = 1}} \ Range(order))

\* The paths a pattern matches: pattern is the sequence of its components.
Matches(f, pattern) ==
    {p \in f.dirs \cup DOMAIN f.files :
        /\ Len(p) = Len(pattern)
        /\ \A i \in DOMAIN p : GlobMatch(pattern[i], p[i])}

\* root.glob(pattern): the matches, in the listing order of their first
\* component.
RECURSIVE GlobFrom(_, _, _)
GlobFrom(f, names, pattern) ==
    IF names = <<>> THEN <<>>
    ELSE SetToSeq({p \in Matches(f, pattern) : p[1] = Head(names)})
         \o GlobFrom(f, Tail(names), pattern)

RootGlob(f, order, pattern) == GlobFrom(f, RootEntries(f, order), pattern)
(***************************************************************************)
(* Split walker.                                                           *)
(***************************************************************************)
NoSplit == [found |-> FALSE, images |-> <<>>, hasLabels |-> FALSE, labels |-> <<>>]

\* merge_dataset_2.find_split_dirs: the first alias whose images directory
\* exists wins; its labels path is attached when it exists.
RECURSIVE FirstAlias(_, _, _)
FirstAlias(f, dataset_dir, aliases) ==
    IF aliases = <<>> THEN NoSplit
    ELSE LET images_dir == dataset_dir \o <<Head(aliases), Images>>
             labels_dir == dataset_dir \o <<Head(aliases), Labels>>
         IN IF Exists(f, images_dir) /\ IsDir(f, images_dir)
            THEN [found |-> TRUE, images |-> images_dir,
                  hasLabels |-> Exists(f, labels_dir), labels |-> labels_dir]
            ELSE FirstAlias(f, dataset_dir, Tail(aliases))

find_split_dirs(f, dataset_dir, split_key) ==
    FirstAlias(f, dataset_dir, SPLIT_ALIASES[split_key])

\* merge_dataset_2.iter_images: files below images_dir with an image suffix.
iter_images(f, images_dir) ==
    {p \in FilesBelow(f, images_dir) : Lower(PathSuffix(Name(p))) \in IMG_EXTS}

TxtPattern == <<"*", ".", "t", "x", "t">>

\* merge_dataset_2.iter_label_files: rglob("*.txt"), files only.
iter_label_files(f, labels_dir) ==
    {p \in FilesBelow(f, labels_dir) : GlobMatch(TxtPattern, Name(p))}

(***************************************************************************)
(* Label remapper.  An accumulator holds the lines emitted so far, the     *)
(* shared per-class tally and the box counter of the split.                *)
(***************************************************************************)
\* class_counts[k] += 1 on a defaultdict(int)
Inc(counts, k) ==
    IF k \in DOMAIN counts THEN [counts EXCEPT ![k] = @ + 1]
    ELSE (k :> 1) @@ counts

\* merge_dataset_2: append_line tallies the target id.
append_line_2(acc, tokens, target_id) ==
    [out_lines |-> Append(acc.out_lines, tokens),
     counts |-> Inc(acc.counts, target_id),
     boxes |-> acc.boxes + 1]

\* merge_dataset_1: append_line tallies int(tokens[0]) of the line it was
\* handed, and the target id when that raises ValueError or IndexError.
append_line_1(acc, tokens, target_id) ==
    LET parsed == IF tokens = <<>> THEN [ok |-> FALSE, val |-> 0]
                  ELSE IntParse(tokens[1])
        cls_id == IF parsed.ok THEN parsed.val ELSE target_id
    IN [out_lines |-> Append(acc.out_lines, tokens),
        counts |-> Inc(acc.counts, cls_id),
        boxes |-> acc.boxes + 1]

append_line(script, acc, tokens, target_id) ==
    IF script = 1 THEN append_line_1(acc, tokens, target_id)
    ELSE append_line_2(acc, tokens, target_id)

\* Mutant of EmitChunks: only the first group of 4 values is emitted.
EmitChunks_FirstOnly(script, acc, vals, i, target_id) ==
    append_line(script, acc, <<StrOfInt(target_id)>> \o SubSeq(vals, 1, 4), target_id)

\* for i in range(0, len(vals), 4): append_line([str(target_id)] + vals[i:i+4])
RECURSIVE EmitChunks(_, _, _, _, _)
EmitChunks(script, acc, vals, i, target_id) ==
    IF i > Len(vals) THEN acc
    ELSE EmitChunks(script,
                    append_line(script, acc,
                                <<StrOfInt(target_id)>> \o SubSeq(vals, i, i + 3),
                                target_id),
                    vals, i + 4, target_id)

\* Mutant of RemapLine: merge_dataset_1 tallies a line that is not split into
\* groups of 4 under the class id its first token had before it was replaced.
RemapLine_TalliesOriginal(script, acc, parts, target_id) ==
    IF parts = <<>> THEN acc
    ELSE IF Len(parts) >= 5 /\ Len(Tail(parts)) % 4 = 0
         THEN EmitChunks(script, acc, Tail(parts), 1, target_id)
         ELSE IF script = 1
              THEN [out_lines |-> Append(acc.out_lines,
                                         <<StrOfInt(target_id)>> \o Tail(parts)),
                    counts |-> Inc(acc.counts,
                                   IF IntParse(parts[1]).ok
                                   THEN IntParse(parts[1]).val ELSE target_id),
                    boxes |-> acc.boxes + 1]
              ELSE append_line(script, acc,
                               <<StrOfInt(target_id)>> \o Tail(parts), target_id)

\* Mutant of RemapLine: a line of fewer than 5 tokens is skipped.
RemapLine_SkipsShort(script, acc, parts, target_id) ==
    IF Len(parts) < 5 THEN acc
    ELSE LET vals == Tail(parts)
         IN IF Len(vals) % 4 = 0
            THEN EmitChunks(script, acc, vals, 1, target_id)
            ELSE append_line(script, acc,
                             <<StrOfInt(target_id)>> \o Tail(parts), target_id)

\* The body of "for line in lines" for one line, parts = line.split().
RemapLine(script, acc, parts, target_id) ==
    IF parts = <<>> THEN acc
    ELSE IF Len(parts) >= 5
         THEN LET vals == Tail(parts)
              IN IF Len(vals) % 4 = 0
                 THEN EmitChunks(script, acc, vals, 1, target_id)
                 ELSE append_line(script, acc,
                                  <<StrOfInt(target_id)>> \o Tail(parts), target_id)
         ELSE append_line(script, acc,
                          <<StrOfInt(target_id)>> \o Tail(parts), target_id)

RECURSIVE RemapLines(_, _, _, _)
RemapLines(script, acc, lines, target_id) ==
    IF lines = <<>> THEN acc
    ELSE RemapLines(script, RemapLine(script, acc, Head(lines), target_id),
                    Tail(lines), target_id)

(***************************************************************************)
(* File materializer.  A split state holds the filesystem, the three       *)
(* counters process_split returns, the shared tally, and the log of        *)
(* source/destination pairs of the files it handled.                       *)
(***************************************************************************)
SplitStart(f, counts) ==
    [fs |-> f, ci |-> 0, cl |-> 0, boxes |-> 0, counts |-> counts, copies |-> <<>>]

\* for img in imgs: copy to out_images / f"{prefix}_{img.name}" unless dry_run.
RECURSIVE CopyImages(_, _, _, _, _)
CopyImages(st, imgs, out_images, prefix, dry_run) ==
    IF imgs = <<>> THEN st
    ELSE LET img == Head(imgs)
             dest == Append(out_images, new_name(prefix, Name(img)))
             f1 == IF dry_run THEN st.fs
                   ELSE WriteFile(make_dirs(st.fs, Parent(dest)), dest,
                                  st.fs.files[img])
         IN CopyImages([st EXCEPT !.fs = f1, !.ci = @ + 1,
                                  !.copies = Append(@, [src |-> img, dst |-> dest])],
                       Tail(imgs), out_images, prefix, dry_run)

\* for lab in lbls: read, remap every line, write the result unless dry_run.
RECURSIVE RemapLabels(_, _, _, _, _, _, _)
RemapLabels(script, st, lbls, out_labels, prefix, target_id, dry_run) ==
    IF lbls = <<>> THEN st
    ELSE LET lab == Head(lbls)
             dest == Append(out_labels, new_name(prefix, Name(lab)))
             f0 == IF dry_run THEN st.fs ELSE make_dirs(st.fs, Parent(dest))
             acc == RemapLines(script,
                               [out_lines |-> <<>>, counts |-> st.counts,
                                boxes |-> st.boxes],
                               f0.files[lab], target_id)
             f1 == IF dry_run THEN f0 ELSE WriteFile(f0, dest, acc.out_lines)
         IN RemapLabels(script,
                        [st EXCEPT !.fs = f1, !.cl = @ + 1, !.boxes = acc.boxes,
                                   !.counts = acc.counts,
                                   !.copies = Append(@, [src |-> lab, dst |-> dest])],
                        Tail(lbls), out_labels, prefix, target_id, dry_run)

\* merge_dataset_2.process_split
process_split_2(f, dataset_dir, split_key, out_images, out_labels, prefix, target_id, counts, dry_run) ==
    LET sd == find_split_dirs(f, dataset_dir, split_key)
    IN IF ~sd.found THEN SplitStart(f, counts)
       ELSE LET imgs == SetToSeq(iter_images(f, sd.images))
                st1 == CopyImages(SplitStart(f, counts), imgs, out_images,
                                  prefix, dry_run)
            IN IF ~sd.hasLabels THEN st1
               ELSE RemapLabels(2, st1,
                                SetToSeq(iter_label_files(st1.fs, sd.labels)),
                                out_labels, prefix, target_id, dry_run)

\* merge_dataset_1.process_split: no aliases, no image-suffix filter, and both
\* listings are taken before anything is copied.
process_split_1(f, dataset_dir, split, out_images, out_labels, prefix, target_id, counts, dry_run) ==
    LET images_dir == dataset_dir \o <<SplitDir(split), Images>>
        labels_dir == dataset_dir \o <<SplitDir(split), Labels>>
        image_files == IF Exists(f, images_dir)
                       THEN FilesBelow(f, images_dir) ELSE {}
        label_files == IF Exists(f, labels_dir)
                       THEN iter_label_files(f, labels_dir) ELSE {}
        st1 == CopyImages(SplitStart(f, counts), SetToSeq(image_files),
                          out_images, prefix, dry_run)
    IN RemapLabels(1, st1, SetToSeq(label_files), out_labels, prefix,
                   target_id, dry_run)

process_split(script, f, dataset_dir, split, out_images, out_labels, prefix, target_id, counts, dry_run) ==
    IF script = 1
    THEN process_split_1(f, dataset_dir, split, out_images, out_labels, prefix,
                         target_id, counts, dry_run)
    ELSE process_split_2(f, dataset_dir, split, out_images, out_labels, prefix,
                         target_id, counts, dry_run)
(***************************************************************************)
(* Dataset locator (merge_dataset_2).                                      *)
(***************************************************************************)
\* "found" without patterns: the directories root.iterdir() yields whose
\* lowered name ends in .yolov11.
Discovered(f, order) ==
    LET kept == SelectSeq(RootEntries(f, order),
                          LAMBDA n : IsDir(f, <<n>>) /\ EndsWith(Lower(n), DotYolo))
    IN [k \in DOMAIN kept |-> <<kept[k]>>]

\* "found" with patterns: for each pattern in turn, the directories among
\* root.glob(pattern).
RECURSIVE Globbed(_, _, _)
Globbed(f, order, dataset_globs) ==
    IF dataset_globs = <<>> THEN <<>>
    ELSE SelectSeq(RootGlob(f, order, Head(dataset_globs)), LAMBDA p : IsDir(f, p))
         \o Globbed(f, order, Tail(dataset_globs))

Found(f, order, dataset_globs) ==
    IF dataset_globs # <<>> THEN Globbed(f, order, dataset_globs)
    ELSE Discovered(f, order)

\* Mutant of LooksLikeYolo: the test split is not asked for.
LooksLikeYolo_NoTest(f, d) ==
    /\ find_split_dirs(f, d, "train").found
    /\ find_split_dirs(f, d, "valid").found

\* "keep only those that actually look like YOLO splits"
LooksLikeYolo(f, d) ==
    /\ find_split_dirs(f, d, "train").found
    /\ find_split_dirs(f, d, "valid").found
    /\ find_split_dirs(f, d, "test").found

Usable(f, found) == SelectSeq(found, LAMBDA d : LooksLikeYolo(f, d))

\* merge_dataset_2.resolve_datasets
resolve_datasets(f, order, dataset_globs) ==
    Usable(f, Found(f, order, dataset_globs))

(***************************************************************************)
(* merge.  A merge state holds the filesystem, stats, class_counts,        *)
(* total_boxes and the log of handled files.                               *)
(***************************************************************************)
\* for split in (...): make_dirs(out / split / "images"), ... / "labels"
MakeOutputDirs(f, out) ==
    LET wanted == UNION { Ancestors(out \o <<SplitDir(SplitKeys[i]), Images>>)
                          \cup Ancestors(out \o <<SplitDir(SplitKeys[i]), Labels>>)
                          : i \in DOMAIN SplitKeys }
    IN [f EXCEPT !.dirs = @ \cup wanted]

YamlLines ==
    << <<"train:", "train/images">>, <<"val:", "valid/images">>,
       <<"test:", "test/images">>, <<>>,
       <<"nc:", StrOfInt(Len(UNIFIED_NAMES))>>,
       <<"names:">> \o UNIFIED_NAMES >>

MergeStart(f) ==
    [fs |-> f, stats |-> <<>>, counts |-> <<>>, total |-> 0, copies |-> <<>>]

\* The inner "for split in (train, valid, test)" of merge for one dataset.
MergeSplits(script, m, ds_path, key, prefix, target_id, out, dry_run) ==
    LET MergeFrom[i \in 1..(Len(SplitKeys) + 1)] ==
          IF i = 1 THEN [m EXCEPT !.stats = (key :> <<>>) @@ @]
          ELSE LET prev == MergeFrom[i - 1]
                   split == SplitKeys[i - 1]
                   r == process_split(script, prev.fs, ds_path, split,
                                      out \o <<SplitDir(split), Images>>,
                                      out \o <<SplitDir(split), Labels>>,
                                      prefix, target_id, prev.counts, dry_run)
                   tagged == [k \in DOMAIN r.copies |->
                                [ds |-> ds_path, split |-> split,
                                 src |-> r.copies[k].src, dst |-> r.copies[k].dst]]
               IN [fs |-> r.fs,
                   stats |-> [prev.stats EXCEPT ![key] =
                                (split :> [images_copied |-> r.ci,
                                           labels_copied |-> r.cl,
                                           boxes |-> r.boxes]) @@ @],
                   counts |-> r.counts,
                   total |-> prev.total + r.boxes,
                   copies |-> prev.copies \o tagged]
    IN MergeFrom[Len(SplitKeys) + 1]

\* if not dry_run: data_yaml.write_text(...)
WriteYaml(m, out, dry_run) ==
    IF dry_run THEN m
    ELSE [m EXCEPT !.fs = WriteFile(@, Append(out, DataYaml), YamlLines)]

\* merge_dataset_2.merge
RECURSIVE MergeDatasets_2(_, _, _, _)
MergeDatasets_2(m, datasets, out, dry_run) ==
    IF datasets = <<>> THEN m
    ELSE LET ds_path == Head(datasets)
         IN MergeDatasets_2(
              MergeSplits(2, m, ds_path, Name(ds_path),
                          sanitize_prefix(Name(ds_path)), FORCED_TARGET_ID,
                          out, dry_run),
              Tail(datasets), out, dry_run)

merge_2(f, out, datasets, dry_run) ==
    WriteYaml(MergeDatasets_2(MergeStart(MakeOutputDirs(f, out)), datasets,
                              out, dry_run),
              out, dry_run)

\* merge_dataset_1.merge: the DATASETS table in order, absent folders skipped.
RECURSIVE MergeDatasets_1(_, _, _, _)
MergeDatasets_1(m, table, out, dry_run) ==
    IF table = <<>> THEN m
    ELSE LET ds_name == Head(table).name
             ds_path == <<ds_name>>
         IN MergeDatasets_1(
              IF ~Exists(m.fs, ds_path) THEN m
              ELSE MergeSplits(1, m, ds_path, ds_name, prefix_1(ds_name),
                               Head(table).target, out, dry_run),
              Tail(table), out, dry_run)

merge_1(f, out, dry_run) ==
    WriteYaml(MergeDatasets_1(MergeStart(MakeOutputDirs(f, out)), DATASETS,
                              out, dry_run),
              out, dry_run)
(***************************************************************************)
(* The trees a run may start from: up to MaxEntries of the entries below   *)
(* side by side under --root.                                              *)
(***************************************************************************)
Img001 == <<"i", "m", "a", "g", "e", "0", "0", "1", ".", "j", "p", "g">>
Lbl001 == <<"i", "m", "a", "g", "e", "0", "0", "1", ".", "t", "x", "t">>
ImgUpper == <<"I", "M", "G", ".", "P", "N", "G">>
Readme == <<"r", "e", "a", "d", "m", "e", ".", "m", "d">>

L9 == <<"0", ".1", ".2", ".3", ".4", ".5", ".6", ".7", ".8">>
L6 == <<"7", ".1", ".2", ".3", ".4", ".5">>
L5 == <<"2", ".1", ".2", ".3", ".4">>
L2 == <<"x", ".1">>

NameA == <<"a">> \o DotYolo
NameASpaceB == <<"a", " ", "b">> \o DotYolo
NameAUnderB == <<"a", "_", "b">> \o DotYolo
NameC == <<"c">> \o DotYolo
NameDUpper == <<"D", ".", "Y", "O", "L", "O", "V", "1", "1">>
NameF == <<"f">> \o DotYolo
NameOut == <<"o", "u", "t">>
NameM == <<"m">> \o DotYolo

Pixels(tag) == << <<tag>> >>

\* A dataset folder with an images folder per alias, a labels folder per alias
\* in labelled, and the given files.
Entry(name, aliases, labelled, files) ==
    [dirs |-> UNION ({Ancestors(<<name, a, Images>>) : a \in aliases}
                     \cup {Ancestors(<<name, a, Labels>>) : a \in labelled}),
     files |-> files]

Entries ==
    << Entry(NameA, {Train, Valid, Test}, {Train, Valid, Test},
             (<<NameA, Train, Images, Img001>> :> Pixels("a"))
             @@ (<<NameA, Train, Labels, Lbl001>> :> <<L9, <<>>, L6>>)),
       Entry(NameASpaceB, {Train, Val, Test}, {Train},
             (<<NameASpaceB, Train, Images, Img001>> :> Pixels("a b"))
             @@ (<<NameASpaceB, Val, Images, Img001>> :> Pixels("a b val"))
             @@ (<<NameASpaceB, Train, Labels, Lbl001>> :> <<L5>>)),
       Entry(NameAUnderB, {Train, Valid, Test}, {},
             (<<NameAUnderB, Train, Images, Img001>> :> Pixels("a_b"))
             @@ (<<NameAUnderB, Train, Images, ImgUpper>> :> Pixels("a_b png"))
             @@ (<<NameAUnderB, Train, Images, Readme>> :> <<L2>>)),
       Entry(NameC, {Train, Valid}, {Train},
             (<<NameC, Train, Images, Img001>> :> Pixels("c"))
             @@ (<<NameC, Train, Labels, Lbl001>> :> <<L2>>)),
       Entry(NameDUpper, {Train, Val, Test}, {Test},
             (<<NameDUpper, Test, Images, Img001>> :> Pixels("d"))
             @@ (<<NameDUpper, Test, Labels, Lbl001>> :> <<L6>>)),
       [dirs |-> {}, files |-> (<<NameF>> :> <<L2>>)],
       Entry(Passport, {Train, Valid, Test}, {Train},
             (<<Passport, Train, Images, Img001>> :> Pixels("p"))
             @@ (<<Passport, Train, Images, Readme>> :> <<L2>>)
             @@ (<<Passport, Train, Labels, Lbl001>> :> <<L6, L2>>)),
       Entry(Vkyc, {Train, Val}, {Train, Val},
             (<<Vkyc, Val, Images, Img001>> :> Pixels("v"))
             @@ (<<Vkyc, Train, Labels, Lbl001>> :> <<L9>>)) >>

EmptyFs == [dirs |-> {}, files |-> <<>>]

RECURSIVE Union(_, _)
Union(f, chosen) ==
    IF chosen = {} THEN f
    ELSE LET i == CHOOSE i \in chosen : TRUE
         IN Union([dirs |-> f.dirs \cup Entries[i].dirs,
                   files |-> Entries[i].files @@ f.files],
                  chosen \ {i})

\* The entries merge_dataset_1 looks for, and the others.
TableEntries ==
    {i \in DOMAIN Entries :
        \E k \in DOMAIN DATASETS : <<DATASETS[k].name>> \in Entries[i].dirs}

Trees(pool) ==
    {Union(EmptyFs, chosen) :
        chosen \in {c \in SUBSET pool : Cardinality(c) <= MaxEntries}}

\* --datasets, split at the commas: each pattern the sequence of its components.
PatternLists ==
    { << <<<<"c", "*">>>>, <<<<"a", "*">>>> >>,
      << <<<<"a", "*">>>>, <<<<"a", ".", "*">>>> >> }

ArgSets ==
    { [script |-> 1, out |-> <<NameOut>>, patterns |-> <<>>],
      [script |-> 2, out |-> <<NameOut>>, patterns |-> <<>>],
      [script |-> 2, out |-> <<NameM>>, patterns |-> <<>>] }
    \cup [script : {2}, out : {<<NameOut>>}, patterns : PatternLists]

\* The directories under root, now or once the output folder exists.
RootNames(f, out) == {p[1] : p \in f.dirs} \cup {out[1]}

NoRun ==
    [ran |-> FALSE, dry_run |-> FALSE, outcome |-> "none", datasets |-> <<>>,
     stats |-> <<>>, counts |-> <<>>, total |-> 0, copies |-> <<>>,
     pre |-> EmptyFs, twin |-> [stats |-> <<>>, counts |-> <<>>, total |-> 0]]

NoEmit == [out_lines |-> <<>>, counts |-> <<>>, boxes |-> 0]

Init ==
    /\ args \in ArgSets
    /\ fs \in Trees(IF args.script = 1 THEN TableEntries
                    ELSE DOMAIN Entries \ TableEntries)
    /\ listing \in IF args.script = 1 THEN {SetToSeq(RootNames(fs, args.out))}
                   ELSE Perms(RootNames(fs, args.out))
    /\ last = NoRun
    /\ runs = 0
    /\ line = <<>>
    /\ emitted = NoEmit

(***************************************************************************)
(* The two command lines.                                                  *)
(***************************************************************************)
Report(dry_run, datasets, m, twin) ==
    [ran |-> TRUE, dry_run |-> dry_run,
     outcome |-> IF dry_run THEN "dry" ELSE "written",
     datasets |-> datasets, stats |-> m.stats, counts |-> m.counts,
     total |-> m.total, copies |-> m.copies, pre |-> fs,
     twin |-> [stats |-> twin.stats, counts |-> twin.counts, total |-> twin.total]]

\* merge_dataset_2.main: "[ERROR] No usable ..." and return when nothing was
\* resolved, else merge and print the summary.  last.twin is what the same
\* call returns from the same tree with dry_run negated.
Main2(dry_run) ==
    /\ args.script = 2
    /\ runs < MaxRuns
    /\ LET candidates == resolve_datasets(fs, listing, args.patterns)
       IN IF candidates = <<>>
          THEN /\ fs' = fs
               /\ last' = [NoRun EXCEPT !.ran = TRUE, !.dry_run = dry_run,
                                        !.outcome = "error", !.pre = fs]
          ELSE LET m == merge_2(fs, args.out, candidates, dry_run)
                   twin == merge_2(fs, args.out, candidates, ~dry_run)
               IN /\ fs' = m.fs
                  /\ last' = Report(dry_run, candidates, m, twin)
    /\ runs' = runs + 1
    /\ UNCHANGED <<listing, args, line, emitted>>

\* merge_dataset_1.main: merge is always called.
Main1(dry_run) ==
    /\ args.script = 1
    /\ runs < MaxRuns
    /\ LET m == merge_1(fs, args.out, dry_run)
           twin == merge_1(fs, args.out, ~dry_run)
           present == SelectSeq(DATASETS, LAMBDA d : Exists(fs, <<d.name>>))
       IN /\ fs' = m.fs
          /\ last' = Report(dry_run, [k \in DOMAIN present |-> <<present[k].name>>],
                            m, twin)
    /\ runs' = runs + 1
    /\ UNCHANGED <<listing, args, line, emitted>>

Next ==
    \/ \E dry_run \in BOOLEAN : Main2(dry_run)
    \/ \E dry_run \in BOOLEAN : Main1(dry_run)

Spec == Init /\ [][Next]_vars
(***************************************************************************)
(* The label remapper on its own: one label file holding one line, drawn   *)
(* from every token sequence of up to MaxTokens tokens, remapped under     *)
(* either script's tally policy.                                           *)
(***************************************************************************)
Tokens == {"7", "x"}

Lines == UNION {[1..n -> Tokens] : n \in 0..MaxTokens}

RemapArgs ==
    [script : {1}, target : {DATASETS[k].target : k \in DOMAIN DATASETS}]
    \cup [script : {2}, target : {FORCED_TARGET_ID}]

InitRemap ==
    /\ fs = EmptyFs
    /\ listing = <<>>
    /\ args \in RemapArgs
    /\ last = NoRun
    /\ runs = 0
    /\ line \in Lines
    /\ emitted = NoEmit

\* lines = lab.read_text().splitlines(); out_lines = []; for line in lines: ...
Remap ==
    /\ runs = 0
    /\ emitted' = RemapLines(args.script, NoEmit, <<line>>, args.target)
    /\ runs' = 1
    /\ UNCHANGED <<fs, listing, args, last, line>>

NextRemap == Remap

SpecRemap == InitRemap /\ [][NextRemap]_vars

(***************************************************************************)
(* export_to_coreml.py.  The tree is the current working directory; the    *)
(* weights file is named relative to it, and the converter (Ultralytics    *)
(* model.export) leaves its output next to the weights.  What the          *)
(* converter leaves behind is an input of the run: a package directory, a *)
(* model file, or nothing at the path it returns.                          *)
(***************************************************************************)
BestPt == <<"b", "e", "s", "t", ".", "p", "t">>
Best == <<"b", "e", "s", "t">>
Coreml == <<"c", "o", "r", "e", "m", "l">>
DotMlmodel == <<".", "m", "l", "m", "o", "d", "e", "l">>
DotMlpackage == <<".", "m", "l", "p", "a", "c", "k", "a", "g", "e">>
ModelFile == <<"m", "o", "d", "e", "l">>

\* PurePath.stem: the name without its suffix.
PathStem(name) == SubSeq(name, 1, Len(name) - Len(PathSuffix(name)))

\* str(i) of a counter.
Digits == <<"1", "2", "3", "4", "5", "6", "7", "8", "9">>
StrOfIndex(i) ==
    IF i <= 9 THEN <<Digits[i]>> ELSE <<Digits[i \div 10], Digits[(i % 10) + 1]>>

\* parent / f"{stem}_{i}{suffix}", first i from the given one that is free.
RECURSIVE NextCandidate(_, _, _)
NextCandidate(f, base, i) ==
    LET candidate == Append(Parent(base),
                            PathStem(Name(base)) \o <<"_">> \o StrOfIndex(i)
                              \o PathSuffix(Name(base)))
    IN IF ~Exists(f, candidate) THEN candidate
       ELSE NextCandidate(f, base, i + 1)

next_free_path(f, base) ==
    IF ~Exists(f, base) THEN base ELSE NextCandidate(f, base, 1)

\* Removal of whatever is at path p, with all that is below it.
Remove(f, p) ==
    [dirs |-> {d \in f.dirs : ~IsPrefix(p, d)},
     files |-> [q \in {q \in DOMAIN f.files : ~IsPrefix(p, q)} |-> f.files[q]]]

\* A package directory at p (one file in it), and a model file at p.
PutPackage(f, p, tag) ==
    WriteFile(make_dirs(Remove(f, p), p), Append(p, ModelFile), Pixels(tag))
PutModel(f, p, tag) == WriteFile(Remove(f, p), p, Pixels(tag))

\* What model.export can leave and return: the kind of artifact at the
\* returned path and the suffix of that path.
ExportOuts ==
    { [kind |-> "dir", ext |-> DotMlpackage],
      [kind |-> "file", ext |-> DotMlmodel],
      [kind |-> "none", ext |-> DotMlpackage],
      [kind |-> "none", ext |-> DotMlmodel] }

\* model.export(format="coreml", ...): the tree after the conversion.
export(f, produced, kind, tag) ==
    CASE kind = "dir" -> PutPackage(f, produced, tag)
      [] kind = "file" -> PutModel(f, produced, tag)
      [] kind = "none" -> f

\* shutil.copytree(produced, target): target is created with all below produced.
copytree(f, produced, target) ==
    LET moved(q) == target \o SubSeq(q, Len(produced) + 1, Len(q))
        below == {q \in DOMAIN f.files : IsPrefix(produced, q)}
    IN [dirs |-> f.dirs \cup {moved(d) : d \in {d \in f.dirs : IsPrefix(produced, d)}},
        files |-> [q \in DOMAIN f.files \cup {moved(b) : b \in below} |->
                     IF \E b \in below : moved(b) = q
                     THEN f.files[CHOOSE b \in below : moved(b) = q]
                     ELSE f.files[q]]]

\* shutil.copy2(produced, target) of a regular file.
copy2(f, produced, target) == WriteFile(f, target, f.files[produced])

\* The names the working directory can hold before the first run.
ExportNames ==
    { Coreml \o DotMlmodel, Coreml \o DotMlpackage,
      Coreml \o <<"_", "1">> \o DotMlmodel,
      Coreml \o <<"_", "1">> \o DotMlpackage }

\* A working directory: each occupied name holds an old file or an old folder.
RECURSIVE Occupy(_, _)
Occupy(f, kinds) ==
    IF DOMAIN kinds = {} THEN f
    ELSE LET n == CHOOSE n \in DOMAIN kinds : TRUE
             rest == [m \in DOMAIN kinds \ {n} |-> kinds[m]]
         IN Occupy(IF kinds[n] = "dir" THEN PutPackage(f, <<n>>, "old")
                   ELSE PutModel(f, <<n>>, "old"),
                   rest)

WorkDirs ==
    { Occupy(IF w THEN PutModel(EmptyFs, <<BestPt>>, "weights") ELSE EmptyFs, kinds) :
        w \in BOOLEAN,
        kinds \in UNION {[S -> {"file", "dir"}] :
                           S \in {T \in SUBSET ExportNames :
                                    Cardinality(T) <= MaxEntries}} }

ExportArgSets ==
    [script : {3}, weights : {<<BestPt>>}, outname : {Coreml, Best}]

NoExport ==
    [ran |-> FALSE, exit |-> 0, pre |-> EmptyFs, after |-> EmptyFs,
     produced |-> <<>>, base |-> <<>>, target |-> <<>>]

InitExport ==
    /\ args \in ExportArgSets
    /\ fs \in WorkDirs
    /\ listing = <<>>
    /\ last = NoExport
    /\ runs = 0
    /\ line = <<>>
    /\ emitted = NoEmit

\* export_to_coreml.main with the converter leaving export_out.  last.exit
\* is the exit status; last.after is the tree after the conversion, or the
\* tree as it was when the run stopped before converting.
ExportMain(export_out) ==
    /\ args.script = 3
    /\ runs < MaxRuns
    /\ LET weights_p == args.weights
           produced == Append(Parent(weights_p),
                              PathStem(Name(weights_p)) \o export_out.ext)
           after == export(fs, produced, export_out.kind, "new")
           base == <<args.outname \o PathSuffix(Name(produced))>>
           target == next_free_path(after, base)
           done(code, f) ==
               /\ fs' = f
               /\ last' = [ran |-> TRUE, exit |-> code, pre |-> fs,
                           after |-> IF code = 1 THEN fs ELSE after,
                           produced |-> produced,
                           base |-> base, target |-> target]
       IN IF ~Exists(fs, weights_p) THEN done(1, fs)
          ELSE IF ~Exists(after, produced) THEN done(2, after)
          ELSE IF produced = target THEN done(0, after)
          ELSE IF IsDir(after, produced)
               THEN IF Exists(after, target) THEN done(3, after)
                    ELSE done(0, copytree(after, produced, target))
               ELSE done(0, copy2(after, produced, target))
    /\ runs' = runs + 1
    /\ UNCHANGED <<listing, args, line, emitted>>

NextExport == \E export_out \in ExportOuts : ExportMain(export_out)

SpecExport == InitExport /\ [][NextExport]_vars

(***************************************************************************)
(* Properties.                                                             *)
(***************************************************************************)
Merged == last.ran /\ last.outcome # "error"

\* C1: a merge run with dry_run set leaves the filesystem as it found it: no
\* directory is created, no image copied, no label file or data.yaml written.
C1_DryRunLeavesTreeUnchanged ==
    (last.ran /\ last.dry_run) => fs = last.pre

\* C2: from the same tree and the same resolved datasets, the run with dry_run
\* and the run without return the same stats, class_counts and total_boxes.
C2_DryRunSameStatistics ==
    Merged => /\ last.stats = last.twin.stats
              /\ last.counts = last.twin.counts
              /\ last.total = last.twin.total

\* The directories of tree f that some pattern of the list matches.
MatchedDirs(f, patterns) ==
    {p \in f.dirs : \E k \in DOMAIN patterns :
        /\ Len(p) = Len(patterns[k])
        /\ \A i \in DOMAIN p : GlobMatch(patterns[k][i], p[i])}

\* C3: with --datasets patterns given, every directory a pattern matches is in
\* the resolved list and is merged, whatever splits it has.
C3_PatternModeNoValidation ==
    (last.ran /\ args.script = 2 /\ args.patterns # <<>>)
        => /\ Range(last.datasets) = MatchedDirs(last.pre, args.patterns)
           /\ \A d \in MatchedDirs(last.pre, args.patterns) :
                Name(d) \in DOMAIN last.stats

\* The images (or the label files) of a split of a dataset, by kind of folder.
SameKind(c1, c2) == c1.dst[Len(c1.dst) - 1] = c2.dst[Len(c2.dst) - 1]

\* C4: two files of the same name in the same split of two distinct datasets of
\* one run go to two distinct output paths, so neither overwrites the other.
C4_NoCollisionAcrossDatasets ==
    \A i, j \in DOMAIN last.copies :
        LET c1 == last.copies[i]
            c2 == last.copies[j]
        IN (/\ c1.ds # c2.ds
            /\ c1.split = c2.split
            /\ SameKind(c1, c2)
            /\ Name(c1.src) = Name(c2.src))
           => c1.dst # c2.dst

\* C5: a run that finds no dataset to merge ends in the error outcome and
\* produces nothing: no output tree, no data.yaml, no success report.
C5_ZeroDatasetsExplicitFailure ==
    (last.ran /\ last.datasets = <<>>)
        => (last.outcome = "error" /\ fs = last.pre)

\* The label files of the output tree, with their content.
OutLabels(f, out) ==
    LET paths == {p \in DOMAIN f.files :
                    \E i \in DOMAIN SplitKeys :
                        Parent(p) = out \o <<SplitDir(SplitKeys[i]), Labels>>}
    IN [p \in paths |-> f.files[p]]

\* C6: a mutating run that follows a mutating run with the same arguments
\* leaves the same label files with the same content in the output tree and
\* returns the same statistics.
C6_RerunConverges ==
    [][(/\ last.outcome = "written"
        /\ last'.outcome = "written"
        /\ runs' = runs + 1)
       => /\ OutLabels(fs', args.out) = OutLabels(fs, args.out)
          /\ last'.stats = last.stats
          /\ last'.counts = last.counts
          /\ last'.total = last.total]_vars

Remapped == runs = 1 /\ line # <<>>

\* A line that takes a fallback path: fewer than 5 tokens, or a number of
\* value tokens that is no multiple of 4.
IsFallback(parts) == parts # <<>> /\ (Len(parts) < 5 \/ (Len(parts) - 1) % 4 # 0)

\* A line of 1 + 4k tokens, k >= 1.
IsChunked(parts) == Len(parts) >= 5 /\ (Len(parts) - 1) % 4 = 0

\* The class id of the line as read: int(first token), else the target id.
OriginalId(parts, target_id) ==
    IF IntParse(parts[1]).ok THEN IntParse(parts[1]).val ELSE target_id

C8_ChunkedLine ==
    (Remapped /\ IsChunked(line)) =>
        LET k == (Len(line) - 1) \div 4
        IN /\ Len(emitted.out_lines) = k
           /\ emitted.boxes = k
           /\ \A i \in 1..k :
                /\ Len(emitted.out_lines[i]) = 5
                /\ emitted.out_lines[i][1] = StrOfInt(args.target)
                /\ \A j \in 1..4 :
                     emitted.out_lines[i][j + 1] = line[1 + 4 * (i - 1) + j]

\* C8 witness: a remapped line of 9 tokens or more whose two value groups differ.
C8_Witness ==
    /\ Remapped
    /\ IsChunked(line)
    /\ Len(line) >= 9
    /\ SubSeq(line, 2, 5) # SubSeq(line, 6, 9)
    /\ Len(emitted.out_lines) >= 2

\* C9: a line of 1 to 4 tokens, or of 5 or more tokens whose value tokens are
\* no multiple of 4, gives exactly one output line: the original tokens with
\* the first replaced by the target id.
C9_FallbackLine ==
    (Remapped /\ IsFallback(line)) =>
        /\ Len(emitted.out_lines) = 1
        /\ emitted.boxes = 1
        /\ Len(emitted.out_lines[1]) = Len(line)
        /\ emitted.out_lines[1][1] = StrOfInt(args.target)
        /\ \A j \in 2..Len(line) : emitted.out_lines[1][j] = line[j]

\* C9 witness: a remapped line of 6 tokens gave one output line.
C9_Witness ==
    /\ Remapped
    /\ Len(line) = 6
    /\ line[2] # line[6]
    /\ Len(emitted.out_lines) = 1

\* The split folders a dataset folder needs, as named on disk.
HasImages(f, d, alias) == (d \o <<alias, Images>>) \in f.dirs

\* The immediate subdirectories of root whose name ends in .yolov11 (in any
\* letter case) and that hold train/images, valid/images or val/images, and
\* test/images.
ExpectedDiscovery(f) ==
    {d \in f.dirs :
        /\ Len(d) = 1
        /\ EndsWith(Lower(d[1]), DotYolo)
        /\ HasImages(f, d, Train)
        /\ (HasImages(f, d, Valid) \/ HasImages(f, d, Val))
        /\ HasImages(f, d, Test)}

\* C10: without patterns the locator returns exactly, and once each, the
\* immediate subdirectories of root whose name ends in .yolov11 and in which
\* the train, valid (valid or val) and test splits all resolve.
C10_DiscoveryExact ==
    (last.ran /\ args.script = 2 /\ args.patterns = <<>>)
        => /\ Range(last.datasets) = ExpectedDiscovery(last.pre)
           /\ Len(last.datasets) = Cardinality(ExpectedDiscovery(last.pre))

\* C10 witness: discovery ran on a root holding a .yolov11 folder without a
\* test split, which it left out, and one with a "val" folder, which it kept.
C10_Witness ==
    /\ last.ran
    /\ args.script = 2
    /\ args.patterns = <<>>
    /\ <<NameC>> \in last.pre.dirs
    /\ <<NameC>> \notin Range(last.datasets)
    /\ <<NameASpaceB>> \in Range(last.datasets)

\* The conversion left its output, and the name the export asks for first is
\* held by an artifact of the other kind (a file for a package, or a folder
\* for a model file).
Exported == args.script = 3 /\ last.ran
Converted == Exported /\ Exists(last.pre, args.weights) /\ Exists(last.after, last.produced)
OccupiedIncompatible ==
    /\ Converted
    /\ last.base # last.produced
    /\ Exists(last.after, last.base)
    /\ IsDir(last.after, last.base) # IsDir(last.after, last.produced)

\* Nothing that was in the working directory after the conversion is changed
\* or replaced by the copy to the final name.
NoOverwrite ==
    /\ last.after.dirs \subseteq fs.dirs
    /\ \A q \in DOMAIN last.after.files :
         q \in DOMAIN fs.files /\ fs.files[q] = last.after.files[q]

\* C11: an export run never overwrites what exists, ends with exit status 2
\* exactly when the converter's output is absent after the conversion, and
\* ends with exit status 3, and no copy, when the destination name is held
\* by an artifact of the other kind.
C11_ExportFailsDistinctly ==
    Exported =>
        /\ NoOverwrite
        /\ (last.exit = 2) <=> (/\ Exists(last.pre, args.weights)
                                /\ ~Exists(last.after, last.produced))
        /\ OccupiedIncompatible => (last.exit = 3 /\ fs = last.after)

\* The export as the code has it: a held name of either kind leads to the
\* next free suffixed name and a successful run; no run ends with status 3.
ExportPicksNextName ==
    Exported =>
        /\ NoOverwrite
        /\ last.exit \in {0, 1, 2}
        /\ (last.exit = 1) <=> ~Exists(last.pre, args.weights)
        /\ (last.exit = 2) <=> (/\ Exists(last.pre, args.weights)
                                /\ ~Exists(last.after, last.produced))
        /\ (last.exit = 0 /\ last.produced # last.target)
             => /\ ~Exists(last.after, last.target)
                /\ Exists(fs, last.target)
                /\ IsDir(fs, last.target) = IsDir(last.after, last.produced)

\* An export run that found the first name held by an artifact of the other
\* kind and took the next name.
ExportWitness ==
    /\ OccupiedIncompatible
    /\ last.exit = 0
    /\ last.target # last.base

\* The sum of the boxes counters over the per-split entries of one dataset,
\* and over all the datasets of the returned statistics.
RECURSIVE SplitBoxes(_)
SplitBoxes(per_split) ==
    IF DOMAIN per_split = {} THEN 0
    ELSE LET k == CHOOSE k \in DOMAIN per_split : TRUE
         IN per_split[k].boxes
            + SplitBoxes([j \in DOMAIN per_split \ {k} |-> per_split[j]])

RECURSIVE StatsBoxes(_)
StatsBoxes(stats) ==
    IF DOMAIN stats = {} THEN 0
    ELSE LET k == CHOOSE k \in DOMAIN stats : TRUE
         IN SplitBoxes(stats[k])
            + StatsBoxes([j \in DOMAIN stats \ {k} |-> stats[j]])

\* C12: after a merge run the returned total box count is the sum of the
\* boxes counters of all per-dataset per-split entries of the returned stats.
C12_TotalIsSumOfStats ==
    Merged => last.total = StatsBoxes(last.stats)

\* The total of a run whose resolved datasets are all distinct is the sum of
\* the boxes counters of the returned stats.
TotalIsSumWhenDistinct ==
    (Merged /\ Cardinality({Name(d) : d \in Range(last.datasets)}) = Len(last.datasets))
        => last.total = StatsBoxes(last.stats)
====
